---- MODULE Spec2Model ----
(***************************************************************************)
(* Session and presence coordinator of quizapp-socket.                     *)
(*                                                                         *)
(* Two servers of the repository are modelled, each under its own          *)
(* specification:                                                          *)
(*   - the admin-enabled server (src/unnamed/part_001, lines 1-177):       *)
(*     one registry activeSessions keyed by quizId, request_session joins  *)
(*     the caller, update_score, admin_end_quiz (asynchronous, awaits the  *)
(*     results sink), disconnect and the 60 s cleanup timer;               *)
(*   - the two-index server (src/unnamed/part_002): two registries         *)
(*     activeSessionsByQuizId / activeSessionsByRoomCode, request_session  *)
(*     only creates, join_game joins, disconnect and the cleanup timer.    *)
(*                                                                         *)
(* Handlers run to completion (Node's event loop), so each handler is one  *)
(* action; admin_end_quiz is split at its await into the call and the      *)
(* continuation that runs when the sink answers.                           *)
(***************************************************************************)
EXTENDS Integers, Sequences, FiniteSets, TLC

\* ------------------------------------------------------------------ inputs
Clients == {"s1", "s2", "s3"}
\* the connections the admin-enabled server sees
Sockets == {"s1", "s2"}
QuizIds == {"quizA", "quizB"}
Codes   == {"R1", "R2"}
Tokens  == {"tokA"}
WrongTokens == {"tokB"}
Roles   == {"admin", "player"}
Scores  == {0, 5}
\* the coordinates <<x, y>> a client may send in player_movement
Positions == {<<0, 0>>, <<1, 2>>}

\* `undefined` for the optional fields and arguments of the source
NoToken == "undefined"
NoTimer == 0

\* bounds of the model
MaxInflight == 2

\* what a client may send as playerInfo (username/character are opaque display
\* strings that no handler reads; they are left out)
PlayerInfos == [role : Roles, x : {0}, y : {0}]

\* the token argument, which a client may leave out
TokenArgs == Tokens \cup {NoToken}

VARIABLES
    conn,            \* socket id -> "new" | "open" | "closed"
    rooms,           \* socket.io rooms: room code -> set of member sockets
    activeSessions,  \* admin server registry: quizId -> Session
    keyOrder,        \* admin server registry: its keys (quiz ids) in insertion order
    timers,          \* admin server: pending setTimeout callbacks [id, quizId], each
                     \* tagged with the identity (sid) of the session it was armed on
    inflight,        \* admin server: admin_end_quiz calls awaiting the sink
    objects,         \* two-index server: the Session objects that the indexes and
                     \* the pending timers refer to, by identity
    activeSessionsByQuizId,   \* two-index server: quizId -> Session (its identity)
    activeSessionsByRoomCode, \* two-index server: roomCode -> Session (its identity)
    roomKeyOrder,    \* two-index server: the keys of activeSessionsByRoomCode in
                     \* insertion order
    timers2,         \* two-index server: pending setTimeout callbacks [id, sid], sid the
                     \* Session object the closure holds
    quizEnded,       \* history: session identity -> number of quiz_ended emitted for
                     \* it (kept while something refers to the session)
    lbAfterEnd,      \* history: sessions that got a leaderboard_update after quiz_ended
    boundBy,         \* history: session identity -> the socket whose request_session
                     \* created it with a bound adminToken (kept while the session is
                     \* registered, its token bound and that socket one of its players)
    lastOp,          \* history: the handler that ran last, with its arguments
    emitted          \* history: the events the last handler emitted, in order

adminVars == <<activeSessions, keyOrder, timers, inflight, quizEnded, lbAfterEnd,
               boundBy>>
twoVars == <<objects, activeSessionsByQuizId, activeSessionsByRoomCode, roomKeyOrder,
             timers2>>

\* ----------------------------------------------------------------- helpers
\* Object.values(obj) with the keys dropped: the multiset of the values
Values(f) == [v \in {f[k] : k \in DOMAIN f} |-> Cardinality({k \in DOMAIN f : f[k] = v})]

\* obj[k] = v on a JS object
Put(f, k, v) == [x \in (DOMAIN f) \cup {k} |-> IF x = k THEN v ELSE f[x]]

\* delete obj[k] on a JS object (a no-op when k is absent)
Delete(f, k) == [x \in (DOMAIN f) \ {k} |-> f[x]]

\* an emitted event: its name, the sockets it reaches, its payload (a record)
Event(name, to, data) == [ev |-> name, to |-> to, data |-> data]

\* sid: the identity of the Session object the handler resolved (0: none);
\* timer: the handle the handler cleared, armed or ran (NoTimer: none)
Op(name, sock, sid, timer) == [op |-> name, sock |-> sock, sid |-> sid, timer |-> timer]

\* the keys of a JS object are visited (for-in, Object.values) in insertion order:
\* a new key goes last, an assignment to an existing key keeps its place
KeysAfterPut(order, k) ==
    IF \E i \in 1..Len(order) : order[i] = k THEN order ELSE Append(order, k)

\* the key order after deletions: the keys that obj still has
KeysLeft(order, obj) ==
    LET has(k) == k \in DOMAIN obj
    IN  SelectSeq(order, has)

\* the first of the keys K in the order of the object
FirstKey(order, K) ==
    order[CHOOSE i \in 1..Len(order) :
             order[i] \in K /\ \A j \in 1..(i - 1) : order[j] \notin K]

\* the one element of a set that holds one
First(S) == CHOOSE x \in S : TRUE

\* Object.values(activeSessions).find(s => s.roomCode === roomCode): the first
\* session with that room code, or nothing
FindByRoomCode(reg, order, roomCode) ==
    LET K == {q \in DOMAIN reg : reg[q].roomCode = roomCode}
    IN  IF K = {} THEN {} ELSE {reg[FirstKey(order, K)]}

\* a generator that returns its first draw without looking at the registry
generateRoomCode_Unchecked(reg) == Codes

\* generateRoomCode: the codes it can return, those no active session uses
generateRoomCode(reg) == {c \in Codes : \A q \in DOMAIN reg : reg[q].roomCode # c}

\* socket.io: a closed socket is in no room
LeaveAll(r, s) == [c \in DOMAIN r |-> r[c] \ {s}]

\* socket.emit reaches the socket only while it is connected
ToSocket(s) == IF conn[s] = "open" THEN {s} ELSE {}

\* ---------------------------------------------------------------- Init
Init ==
    /\ conn = [s \in Clients |-> "new"]
    /\ rooms = [c \in Codes |-> {}]
    /\ activeSessions = << >>
    /\ keyOrder = << >>
    /\ timers = {}
    /\ inflight = << >>
    /\ objects = << >>
    /\ activeSessionsByQuizId = << >>
    /\ activeSessionsByRoomCode = << >>
    /\ roomKeyOrder = << >>
    /\ timers2 = {}
    /\ quizEnded = << >>
    /\ lbAfterEnd = {}
    /\ boundBy = << >>
    /\ lastOp = Op("init", "-", 0, NoTimer)
    /\ emitted = << >>

\* io.on('connection'): a new socket, with its handlers registered
Connect(s) ==
    /\ conn[s] = "new"
    /\ conn' = [conn EXCEPT ![s] = "open"]
    /\ lastOp' = Op("connection", s, 0, NoTimer)
    /\ emitted' = << >>
    /\ UNCHANGED <<rooms, adminVars, twoVars>>

\* the leaderboard_update history: a roster broadcast for a session that already
\* had its quiz_ended
Ended(sid) == IF sid \in DOMAIN quizEnded THEN quizEnded[sid] ELSE 0

NoteLeaderboard(sid) == IF Ended(sid) > 0 THEN lbAfterEnd \cup {sid} ELSE lbAfterEnd

\* the identities of the Session objects something still refers to: the registry,
\* a pending timer, a call that awaits the sink, or the history
Referred(reg, ts, calls) ==
    {reg[q].sid : q \in DOMAIN reg} \cup {t.sid : t \in ts} \cup {c.sid : c \in DOMAIN calls}

\* a new object: an identity nothing refers to
NewSid(used) == CHOOSE n \in 1..(Cardinality(used) + 1) :
                   /\ n \notin used
                   /\ \A m \in 1..(n - 1) : m \in used

UsedSids == Referred(activeSessions, timers, inflight) \cup DOMAIN quizEnded \cup lbAfterEnd

\* the quiz_ended history without the sessions nothing refers to any more
Forget(hist, used) == [sid \in {x \in DOMAIN hist : x \in used} |-> hist[sid]]


\* the binder history that still matters: the sessions the registry holds with a
\* bound token and with their binder connected and among their players
Binders(hist, reg, c) ==
    [sid \in {x \in DOMAIN hist :
                 \E q \in DOMAIN reg : /\ reg[q].sid = x
                                        /\ reg[q].adminToken # NoToken
                                        /\ hist[x] \in DOMAIN reg[q].players
                                        /\ c[hist[x]] = "open"}
        |-> hist[sid]]

\* ------------------------------------------------- admin-enabled server
\* a new Session object (part_001 lines 57-62)
NewSession(sid, quizId, roomCode, info, token) ==
    [sid            |-> sid,
     roomCode       |-> roomCode,
     quizId         |-> quizId,
     players        |-> << >>,
     adminToken     |-> IF info.role = "admin" THEN token ELSE NoToken,
     cleanupTimeout |-> NoTimer]

\* a request_session that drops the handle without clearing the timer
ClearTimeout_Forgotten(ts, handle) == ts

\* clearTimeout(session.cleanupTimeout): the timer of that handle is no longer pending
ClearTimeout(ts, handle) == {t \in ts : t.id # handle}

\* a join that does not start the score at zero
Joined_ScoreNotReset(info) == [role |-> info.role, x |-> info.x, y |-> info.y, score |-> 5]

\* { ...playerInfo, score: 0 }
Joined(info) == [role |-> info.role, x |-> info.x, y |-> info.y, score |-> 0]

\* socket.on('request_session', ({ quizId, playerInfo, token }) => ...); with
\* `note` the history keeps who created the session with a bound adminToken
RequestSessionNoting(s, quizId, info, token, note) ==
    /\ conn[s] = "open"
    /\ \E code \in (IF quizId \in DOMAIN activeSessions
                     THEN {activeSessions[quizId].roomCode}
                     ELSE generateRoomCode(activeSessions)) :
         LET found   == quizId \in DOMAIN activeSessions
             session == IF found THEN activeSessions[quizId]
                        ELSE NewSession(NewSid(UsedSids), quizId, code, info, token)
             players == Put(session.players, s, Joined(info))
             after   == [session EXCEPT !.cleanupTimeout = NoTimer,
                                        !.players = players]
             members == rooms[code] \cup {s}
         IN  /\ activeSessions' = Put(activeSessions, quizId, after)
             /\ keyOrder' = KeysAfterPut(keyOrder, quizId)
             /\ timers' = IF session.cleanupTimeout # NoTimer
                           THEN ClearTimeout(timers, session.cleanupTimeout)
                           ELSE timers
             /\ rooms' = [rooms EXCEPT ![code] = members]
             /\ lbAfterEnd' = NoteLeaderboard(session.sid)
             /\ boundBy' = IF note /\ ~found /\ session.adminToken # NoToken
                            THEN Put(boundBy, session.sid, s) ELSE boundBy
             /\ lastOp' = Op("request_session", s, session.sid, session.cleanupTimeout)
             /\ emitted' =
                  << Event("session_ready", {s},
                           [quizId |-> quizId, roomCode |-> code,
                            players |-> players, ownSocketId |-> s]),
                     Event("new_player", members \ {s},
                           [playerId |-> s, playerInfo |-> players[s]]),
                     Event("leaderboard_update", members, [roster |-> Values(players)]) >>
    /\ UNCHANGED <<conn, inflight, quizEnded, twoVars>>

RequestSession(s, quizId, info, token) ==
    RequestSessionNoting(s, quizId, info, token, FALSE)

\* a movement that stores the coordinates the wrong way round
Moved_Swapped(player, x, y) == [player EXCEPT !.x = y, !.y = x]

\* session.players[socket.id].x = x; session.players[socket.id].y = y
Moved(player, x, y) == [player EXCEPT !.x = x, !.y = y]

\* socket.on('player_movement', ({ roomCode, x, y }) => ...)
PlayerMovement(s, roomCode, x, y) ==
    /\ conn[s] = "open"
    /\ LET found == FindByRoomCode(activeSessions, keyOrder, roomCode)
       IN  IF found # {} /\ s \in DOMAIN First(found).players
           THEN LET session == First(found)
                    players == [session.players EXCEPT ![s] = Moved(@, x, y)]
                IN  /\ activeSessions' =
                         [activeSessions EXCEPT ![session.quizId].players = players]
                    /\ lastOp' = Op("player_movement", s, session.sid, NoTimer)
                    /\ emitted' = << Event("player_moved", rooms[roomCode] \ {s},
                                           [playerId |-> s, x |-> x, y |-> y]) >>
           ELSE /\ lastOp' = Op("player_movement", s, 0, NoTimer)
                /\ emitted' = << >>
                /\ UNCHANGED activeSessions
    /\ UNCHANGED <<conn, rooms, keyOrder, timers, inflight, quizEnded, lbAfterEnd, boundBy,
                   twoVars>>

\* a score update that adds to the score instead of replacing it
NewScore_Sum(old, score) == old + score

\* session.players[socket.id].score = score
NewScore(old, score) == score

\* socket.on('update_score', ({ roomCode, score }) => ...)
UpdateScore(s, roomCode, score) ==
    /\ conn[s] = "open"
    /\ LET found == FindByRoomCode(activeSessions, keyOrder, roomCode)
       IN  IF found # {} /\ s \in DOMAIN First(found).players
           THEN LET session == First(found)
                    players == [session.players EXCEPT ![s].score = NewScore(@, score)]
                IN  /\ activeSessions' =
                         [activeSessions EXCEPT ![session.quizId].players = players]
                    /\ lbAfterEnd' = NoteLeaderboard(session.sid)
                    /\ lastOp' = Op("update_score", s, session.sid, NoTimer)
                    /\ emitted' = << Event("leaderboard_update", rooms[roomCode],
                                           [roster |-> Values(players)]) >>
           ELSE /\ lastOp' = Op("update_score", s, 0, NoTimer)
                /\ emitted' = << >>
                /\ UNCHANGED <<activeSessions, lbAfterEnd>>
    /\ UNCHANGED <<conn, rooms, keyOrder, timers, inflight, quizEnded, boundBy, twoVars>>

\* the test of admin_end_quiz: session && session.adminToken === token
Authorized(found, token) == found # {} /\ First(found).adminToken = token

\* the calls that await the sink form a multiset: call -> how many of it
RECURSIVE Pending(_)
Pending(bag) ==
    IF DOMAIN bag = {} THEN 0
    ELSE LET c == CHOOSE c \in DOMAIN bag : TRUE
         IN  bag[c] + Pending(Delete(bag, c))

Await(bag, call) == Put(bag, call, IF call \in DOMAIN bag THEN bag[call] + 1 ELSE 1)

Resume(bag, call) == IF bag[call] = 1 THEN Delete(bag, call)
                     ELSE [bag EXCEPT ![call] = @ - 1]

\* socket.on('admin_end_quiz', async ({ roomCode, token }) => ...), up to the await:
\* the lookup, the test and the POST to the results sink
AdminEndQuiz(s, roomCode, token, overlap) ==
    /\ conn[s] = "open"
    /\ LET found == FindByRoomCode(activeSessions, keyOrder, roomCode)
       IN  IF Authorized(found, token)
           THEN LET session == First(found)
                IN  /\ Pending(inflight) < overlap
                    /\ inflight' = Await(inflight,
                                      [sock |-> s, sid |-> session.sid,
                                       quizId |-> session.quizId, roomCode |-> roomCode])
                    /\ lastOp' = Op("admin_end_quiz", s, session.sid, NoTimer)
                    /\ emitted' = << Event("POST /quizzes/results", {},
                                           [quizId |-> session.quizId,
                                            leaderboard |-> Values(session.players),
                                            bearer |-> token]) >>
           ELSE /\ lastOp' = Op("admin_end_quiz", s, 0, NoTimer)
                /\ emitted' = << Event("error_ending_quiz", {s},
                                       [message |-> "Unauthorized or invalid session."]) >>
                /\ UNCHANGED inflight
    /\ UNCHANGED <<conn, rooms, activeSessions, keyOrder, timers,
                   quizEnded, lbAfterEnd, boundBy, twoVars>>

\* the registry after the sink answered ok: delete activeSessions[session.quizId]
AfterSinkOk(reg, call) == Delete(reg, call.quizId)

\* a failure branch that tears the session down like the success branch
AfterSinkFailure_Deletes(reg, call) == Delete(reg, call.quizId)

\* the registry after the sink failed: both failure branches only emit
AfterSinkFailure(reg, call) == reg

\* the continuation of admin_end_quiz when response.ok
AdminEndOk(call) ==
    /\ call \in DOMAIN inflight
    /\     /\ activeSessions' = AfterSinkOk(activeSessions, call)
           /\ keyOrder' = KeysLeft(keyOrder, AfterSinkOk(activeSessions, call))
           /\ boundBy' = Binders(boundBy, AfterSinkOk(activeSessions, call), conn)
           /\ quizEnded' = Forget(Put(quizEnded, call.sid, Ended(call.sid) + 1),
                                   Referred(AfterSinkOk(activeSessions, call), timers,
                                            Resume(inflight, call)))
           /\ lastOp' = Op("admin_end_ok", call.sock, call.sid, NoTimer)
           /\ emitted' = << Event("quiz_ended", rooms[call.roomCode],
                                  [message |-> "Quiz has been ended by the admin."]) >>
    /\ inflight' = Resume(inflight, call)
    /\ UNCHANGED <<conn, rooms, timers, lbAfterEnd, twoVars>>

\* the continuation of admin_end_quiz when the sink rejects (response not ok) or
\* cannot be reached (fetch throws)
AdminEndFail(call, message) ==
    /\ call \in DOMAIN inflight
    /\     /\ activeSessions' = AfterSinkFailure(activeSessions, call)
           /\ keyOrder' = KeysLeft(keyOrder, AfterSinkFailure(activeSessions, call))
           /\ boundBy' = Binders(boundBy, AfterSinkFailure(activeSessions, call), conn)
           /\ lastOp' = Op("admin_end_fail", call.sock, call.sid, NoTimer)
           /\ emitted' = << Event("error_ending_quiz", ToSocket(call.sock),
                                  [message |-> message]) >>
    /\ inflight' = Resume(inflight, call)
    /\ quizEnded' = Forget(quizEnded,
                           Referred(AfterSinkFailure(activeSessions, call), timers,
                                    Resume(inflight, call)))
    /\ UNCHANGED <<conn, rooms, timers, lbAfterEnd, twoVars>>

SinkFailures == {"Failed to save results.", "Server error while trying to end quiz."}

\* the for-in loop of disconnect with its break: the first session, in key order,
\* that has the socket as a player, or nothing
SessionsOf(reg, order, s) ==
    LET K == {q \in DOMAIN reg : s \in DOMAIN reg[q].players}
    IN  IF K = {} THEN {} ELSE {reg[FirstKey(order, K)]}

\* the adminToken after a player left: cleared when that player's role is admin
TokenAfterLeave(session, s) ==
    IF session.adminToken # NoToken /\ session.players[s].role = "admin"
    THEN NoToken ELSE session.adminToken

\* Object.keys(session.players).length === 0, after the delete
ArmsCleanup(players) == DOMAIN players = {}

\* setTimeout returns a handle no pending timer and no session holds
NewTimer(ts, reg) ==
    CHOOSE n \in 1..(Cardinality(ts) + Cardinality(DOMAIN reg) + 1) :
        /\ \A t \in ts : t.id # n
        /\ \A q \in DOMAIN reg : reg[q].cleanupTimeout # n
        /\ \A m \in 1..(n - 1) : \/ \E t \in ts : t.id = m
                                 \/ \E q \in DOMAIN reg : reg[q].cleanupTimeout = m

\* socket.on('disconnect', () => ...)
Disconnect(s) ==
    /\ conn[s] = "open"
    /\ conn' = [conn EXCEPT ![s] = "closed"]
    /\ rooms' = LeaveAll(rooms, s)
    /\ IF SessionsOf(activeSessions, keyOrder, s) = {}
       THEN /\ lastOp' = Op("disconnect", s, 0, NoTimer)
            /\ emitted' = << >>
            /\ UNCHANGED <<activeSessions, timers>>
       ELSE LET session == First(SessionsOf(activeSessions, keyOrder, s))
                players == Delete(session.players, s)
                members == rooms'[session.roomCode]
                left    == [session EXCEPT !.adminToken = TokenAfterLeave(session, s),
                                           !.players = players]
            IN  /\ lastOp' = Op("disconnect", s, session.sid,
                                IF ArmsCleanup(players) THEN NewTimer(timers, activeSessions)
                                ELSE NoTimer)
                /\ IF ArmsCleanup(players)
                   THEN /\ activeSessions' =
                             [activeSessions EXCEPT ![session.quizId] =
                                 [left EXCEPT !.cleanupTimeout =
                                                 NewTimer(timers, activeSessions)]]
                        /\ timers' = timers \cup
                                       {[id |-> NewTimer(timers, activeSessions),
                                         quizId |-> session.quizId,
                                         sid |-> session.sid]}
                        /\ emitted' = << Event("player_disconnected", members,
                                               [playerId |-> s]) >>
                   ELSE /\ activeSessions' = [activeSessions EXCEPT ![session.quizId] = left]
                        /\ emitted' = << Event("player_disconnected", members,
                                               [playerId |-> s]),
                                         Event("leaderboard_update", members,
                                               [roster |-> Values(players)]) >>
                        /\ UNCHANGED timers
    /\ boundBy' = Binders(boundBy, activeSessions', conn')
    /\ UNCHANGED <<keyOrder, inflight, quizEnded, lbAfterEnd, twoVars>>

\* the setTimeout callback of disconnect, 60 s later: delete activeSessions[quizIdToClean]
CleanupFires(t) ==
    /\ t \in timers
    /\ timers' = timers \ {t}
    /\ activeSessions' = Delete(activeSessions, t.quizId)
    /\ keyOrder' = KeysLeft(keyOrder, Delete(activeSessions, t.quizId))
    /\ boundBy' = Binders(boundBy, Delete(activeSessions, t.quizId), conn)
    /\ lastOp' = Op("cleanup", "-", t.sid, t.id)
    /\ emitted' = << >>
    /\ quizEnded' = Forget(quizEnded, Referred(Delete(activeSessions, t.quizId),
                                               timers \ {t}, inflight))
    /\ UNCHANGED <<conn, rooms, inflight, lbAfterEnd, twoVars>>

vars == <<conn, rooms, activeSessions, keyOrder, timers, inflight, objects,
          activeSessionsByQuizId, activeSessionsByRoomCode, roomKeyOrder, timers2,
          quizEnded, lbAfterEnd, boundBy, lastOp, emitted>>

\* The admin-enabled server with clients that use the quiz ids Q and keep at most
\* `overlap` admin_end_quiz calls waiting for the sink at a time.
AdminNext(Q, overlap) ==
    \/ \E s \in Sockets : Connect(s)
    \/ \E s \in Sockets, q \in Q, info \in PlayerInfos, token \in TokenArgs :
          RequestSession(s, q, info, token)
    \/ \E s \in Sockets, c \in Codes, token \in TokenArgs \cup WrongTokens :
          AdminEndQuiz(s, c, token, overlap)
    \/ \E call \in DOMAIN inflight : AdminEndOk(call)
    \/ \E call \in DOMAIN inflight, m \in SinkFailures : AdminEndFail(call, m)
    \/ \E s \in Sockets : Disconnect(s)
    \/ \E t \in timers : CleanupFires(t)

\* every quiz id, one finalization at a time
SpecAdmin == Init /\ [][AdminNext(QuizIds, 1)]_vars

\* a pending timer fires once its 60 s have passed
FairSpecAdmin == SpecAdmin /\ WF_vars(\E t \in timers : CleanupFires(t))

\* the clients only join and leave: request_session, disconnect, and the timers
JoinLeaveNext ==
    \/ \E s \in Sockets : Connect(s)
    \/ \E s \in Sockets, q \in QuizIds, info \in PlayerInfos, token \in TokenArgs :
          RequestSession(s, q, info, token)
    \/ \E s \in Sockets : Disconnect(s)
    \/ \E t \in timers : CleanupFires(t)

SpecJoinLeave == Init /\ [][JoinLeaveNext]_vars

\* the clients only join and leave, and the history keeps the creators
CreatorNext ==
    \/ \E s \in Sockets : Connect(s)
    \/ \E s \in Sockets, q \in QuizIds, info \in PlayerInfos, token \in TokenArgs :
          RequestSessionNoting(s, q, info, token, TRUE)
    \/ \E s \in Sockets : Disconnect(s)
    \/ \E t \in timers : CleanupFires(t)

SpecCreator == Init /\ [][CreatorNext]_vars

\* the clients join as players, move, score and leave
PlayNext ==
    \/ \E s \in Sockets : Connect(s)
    \/ \E s \in Sockets, q \in QuizIds :
          RequestSession(s, q, [role |-> "player", x |-> 0, y |-> 0], NoToken)
    \/ \E s \in Sockets : Disconnect(s)
    \/ \E t \in timers : CleanupFires(t)
    \/ \E s \in Sockets, c \in Codes, p \in Positions : PlayerMovement(s, c, p[1], p[2])
    \/ \E s \in Sockets, c \in Codes, score \in Scores : UpdateScore(s, c, score)

SpecPlay == Init /\ [][PlayNext]_vars

\* one quiz id, overlapping finalizations, score updates
FinalNext ==
    \/ AdminNext({"quizA"}, MaxInflight)
    \/ \E s \in Sockets, c \in Codes, score \in Scores : UpdateScore(s, c, score)

SpecFinal == Init /\ [][FinalNext]_vars


\* ------------------------------------------------------ two-index server
\* what a client may send as playerInfo to join_game
JoinInfos == [x : {0}, y : {0}]

\* generateRoomCode of part_002: the codes with no entry in activeSessionsByRoomCode
generateRoomCode2(byRoomCode) == {c \in Codes : c \notin DOMAIN byRoomCode}

\* the Session objects still referred to by an index or by a pending timer
Live(objs, byQuizId, byRoomCode, ts) ==
    [sid \in {x \in DOMAIN objs :
                 \/ \E q \in DOMAIN byQuizId : byQuizId[q] = x
                 \/ \E c \in DOMAIN byRoomCode : byRoomCode[c] = x
                 \/ \E t \in ts : t.sid = x} |-> objs[sid]]

\* setTimeout returns a handle no pending timer and no Session object holds
NewTimer2(ts, objs) ==
    CHOOSE n \in 1..(Cardinality(ts) + Cardinality(DOMAIN objs) + 1) :
        /\ \A t \in ts : t.id # n
        /\ \A x \in DOMAIN objs : objs[x].cleanupTimeout # n
        /\ \A m \in 1..(n - 1) : \/ \E t \in ts : t.id = m
                                 \/ \E x \in DOMAIN objs : objs[x].cleanupTimeout = m

\* socket.on('request_session', (quizId) => ...) of part_002: find or create the
\* session, clear its cleanup timer, answer session_created; the caller is not joined
TwoRequestSession(s, quizId) ==
    /\ conn[s] = "open"
    /\ \E code \in (IF quizId \in DOMAIN activeSessionsByQuizId
                     THEN {objects[activeSessionsByQuizId[quizId]].roomCode}
                     ELSE generateRoomCode2(activeSessionsByRoomCode)) :
         LET found   == quizId \in DOMAIN activeSessionsByQuizId
             sid     == IF found THEN activeSessionsByQuizId[quizId]
                        ELSE NewSid(DOMAIN objects)
             session == IF found THEN objects[sid]
                        ELSE [quizId |-> quizId, roomCode |-> code,
                              players |-> << >>, cleanupTimeout |-> NoTimer]
         IN  /\ activeSessionsByQuizId' = Put(activeSessionsByQuizId, quizId, sid)
             /\ activeSessionsByRoomCode' =
                   IF found THEN activeSessionsByRoomCode
                   ELSE Put(activeSessionsByRoomCode, code, sid)
             /\ roomKeyOrder' = KeysAfterPut(roomKeyOrder, code)
             /\ timers2' = IF session.cleanupTimeout # NoTimer
                            THEN ClearTimeout(timers2, session.cleanupTimeout)
                            ELSE timers2
             /\ objects' = Put(objects, sid, [session EXCEPT !.cleanupTimeout = NoTimer])
             /\ lastOp' = Op("request_session", s, sid, session.cleanupTimeout)
             /\ emitted' = << Event("session_created", {s}, [roomCode |-> code]) >>
    /\ UNCHANGED <<conn, rooms, adminVars>>

\* the Session object after join_game: the player is added, the timer is not touched
AfterJoin(session, s, info) == [session EXCEPT !.players = Put(session.players, s, info)]

\* socket.on('join_game', ({ roomCode, playerInfo }) => ...) of part_002
JoinGame(s, roomCode, info) ==
    /\ conn[s] = "open"
    /\ IF roomCode \notin DOMAIN activeSessionsByRoomCode
       THEN /\ lastOp' = Op("join_game", s, 0, NoTimer)
            /\ emitted' = << Event("error", {s}, [message |-> "Room not found"]) >>
            /\ UNCHANGED <<rooms, objects>>
       ELSE LET sid     == activeSessionsByRoomCode[roomCode]
                session == AfterJoin(objects[sid], s, info)
                members == rooms[roomCode] \cup {s}
            IN  /\ rooms' = [rooms EXCEPT ![roomCode] = members]
                /\ objects' = [objects EXCEPT ![sid] = session]
                /\ lastOp' = Op("join_game", s, sid, NoTimer)
                /\ emitted' =
                     << Event("session_joined", {s},
                              [players |-> session.players, ownSocketId |-> s]),
                        Event("new_player", members \ {s},
                              [playerId |-> s, playerInfo |-> session.players[s]]) >>
    /\ UNCHANGED <<conn, activeSessionsByQuizId, activeSessionsByRoomCode, roomKeyOrder,
                   timers2, adminVars>>

\* the for-in loop of disconnect of part_002 with its break: the first session, in
\* the order of the room-code keys, that has the socket as a player, or nothing
TwoSessionsOf(s) ==
    LET K == {c \in DOMAIN activeSessionsByRoomCode :
                 s \in DOMAIN objects[activeSessionsByRoomCode[c]].players}
    IN  IF K = {} THEN {} ELSE {activeSessionsByRoomCode[FirstKey(roomKeyOrder, K)]}

\* socket.on('disconnect', () => ...) of part_002
TwoDisconnect(s) ==
    /\ conn[s] = "open"
    /\ conn' = [conn EXCEPT ![s] = "closed"]
    /\ rooms' = LeaveAll(rooms, s)
    /\ IF TwoSessionsOf(s) = {}
       THEN /\ lastOp' = Op("disconnect", s, 0, NoTimer)
            /\ emitted' = << >>
            /\ UNCHANGED <<objects, timers2>>
       ELSE LET sid     == First(TwoSessionsOf(s))
                session == objects[sid]
                players == Delete(session.players, s)
                handle  == NewTimer2(timers2, objects)
            IN  /\ emitted' = << Event("player_disconnected",
                                       rooms'[session.roomCode], [playerId |-> s]) >>
                /\ IF ArmsCleanup(players)
                   THEN /\ objects' = [objects EXCEPT ![sid] =
                                          [session EXCEPT !.players = players,
                                                          !.cleanupTimeout = handle]]
                        /\ timers2' = timers2 \cup {[id |-> handle, sid |-> sid]}
                        /\ lastOp' = Op("disconnect", s, sid, handle)
                   ELSE /\ objects' = [objects EXCEPT ![sid].players = players]
                        /\ lastOp' = Op("disconnect", s, sid, NoTimer)
                        /\ UNCHANGED timers2
    /\ UNCHANGED <<activeSessionsByQuizId, activeSessionsByRoomCode, roomKeyOrder,
                   adminVars>>

\* the setTimeout callback of disconnect of part_002, 60 s later:
\* delete activeSessionsByQuizId[session.quizId];
\* delete activeSessionsByRoomCode[session.roomCode]
TwoCleanupFires(t) ==
    /\ t \in timers2
    /\ LET session    == objects[t.sid]
           byQuizId   == Delete(activeSessionsByQuizId, session.quizId)
           byRoomCode == Delete(activeSessionsByRoomCode, session.roomCode)
       IN  /\ timers2' = timers2 \ {t}
           /\ activeSessionsByQuizId' = byQuizId
           /\ activeSessionsByRoomCode' = byRoomCode
           /\ roomKeyOrder' = KeysLeft(roomKeyOrder, byRoomCode)
           /\ objects' = Live(objects, byQuizId, byRoomCode, timers2 \ {t})
    /\ lastOp' = Op("cleanup", "-", t.sid, t.id)
    /\ emitted' = << >>
    /\ UNCHANGED <<conn, rooms, adminVars>>

TwoNext ==
    \/ \E s \in Clients : Connect(s)
    \/ \E s \in Clients, q \in QuizIds : TwoRequestSession(s, q)
    \/ \E s \in Clients, c \in Codes, info \in JoinInfos : JoinGame(s, c, info)
    \/ \E s \in Clients : TwoDisconnect(s)
    \/ \E t \in timers2 : TwoCleanupFires(t)

SpecTwoIndex == Init /\ [][TwoNext]_vars

\* a pending timer fires once its 60 s have passed
FairSpecTwoIndex == SpecTwoIndex /\ WF_vars(\E t \in timers2 : TwoCleanupFires(t))

\* ------------------------------------------------------------- properties
RegisteredIn(reg, sid) == \E q \in DOMAIN reg : reg[q].sid = sid

Registered(sid) == RegisteredIn(activeSessions, sid)

SessionOf(sid) == activeSessions[CHOOSE q \in DOMAIN activeSessions :
                                    activeSessions[q].sid = sid]

TimerPending(handle) == \E t \in timers : t.id = handle

\* C1: admin_end_quiz reaches the results sink only when the room code resolves to a
\* session whose adminToken is bound and equals the token of the call; in every
\* other case only the caller gets error_ending_quiz.
C1_SinkOnlyWithBoundToken ==
    lastOp.op = "admin_end_quiz" =>
        IF lastOp.sid # 0
        THEN /\ emitted[1].ev = "POST /quizzes/results"
             /\ Registered(lastOp.sid)
             /\ SessionOf(lastOp.sid).adminToken # NoToken
             /\ SessionOf(lastOp.sid).adminToken = emitted[1].data.bearer
        ELSE /\ Len(emitted) = 1
             /\ emitted[1].ev = "error_ending_quiz"
             /\ emitted[1].to = {lastOp.sock}

\* C2: no pending cleanup timer belongs to a session that a finalization has
\* ended: the finalizer leaves no timer behind that can still fire.
C2_NoTimerSurvivesFinalization ==
    \A t \in timers : Ended(t.sid) = 0

\* C3: a finalization whose sink call succeeded emits the only quiz_ended of its
\* session (none was emitted for it before), after it the session is no longer in
\* the registry, and a session that had its quiz_ended gets no leaderboard_update.
C3_ExactlyOneQuizEnded ==
    [][/\ lastOp'.op = "admin_end_ok" =>
             /\ Ended(lastOp'.sid) = 0
             /\ ~RegisteredIn(activeSessions', lastOp'.sid)
             /\ Len(emitted') = 1 /\ emitted'[1].ev = "quiz_ended"
       /\ \A sid \in DOMAIN quizEnded' :
             /\ ~RegisteredIn(activeSessions', sid)
             /\ sid \notin lbAfterEnd']_vars

\* C4: when the sink fails, the continuation of admin_end_quiz leaves the registry
\* (room codes, participants, admin tokens), the timers and the rooms as they
\* were, emits no quiz_ended, and emits one error_ending_quiz, to the caller only.
C4_SinkFailureKeepsSession ==
    [][lastOp'.op = "admin_end_fail" =>
          /\ activeSessions' = activeSessions
          /\ keyOrder' = keyOrder
          /\ timers' = timers
          /\ rooms' = rooms
          /\ Len(emitted') = 1
          /\ emitted'[1].ev = "error_ending_quiz"
          /\ emitted'[1].to \subseteq {lastOp'.sock}
          /\ (conn[lastOp'.sock] = "open" => emitted'[1].to = {lastOp'.sock})]_vars

\* a sink failure answered while the session is still there, players and token intact
C4_Witness ==
    /\ lastOp.op = "admin_end_fail"
    /\ Registered(lastOp.sid)
    /\ DOMAIN SessionOf(lastOp.sid).players # {}
    /\ SessionOf(lastOp.sid).adminToken # NoToken

\* C8: a request_session for a quiz id whose session is still registered keeps that
\* session and its room code, and the timer of its handle is no longer pending; a
\* request_session for a quiz id with no session (the timer has fired) creates a
\* new Session object whose only player is the caller and whose adminToken is the
\* caller's token when the caller's role is admin, and absent otherwise.
C8_RequestDuringGraceCancels ==
    [][lastOp'.op = "request_session" =>
        LET s    == lastOp'.sock
            q    == emitted'[1].data.quizId
            me   == emitted'[1].data.players[s]
            info == [role |-> me.role, x |-> me.x, y |-> me.y]
        IN  IF q \in DOMAIN activeSessions
            THEN /\ activeSessions'[q].sid = activeSessions[q].sid
                 /\ activeSessions'[q].roomCode = activeSessions[q].roomCode
                 /\ activeSessions'[q].cleanupTimeout = NoTimer
                 /\ activeSessions[q].cleanupTimeout # NoTimer =>
                        ~(\E t \in timers' : t.id = activeSessions[q].cleanupTimeout)
                 /\ \A t \in timers' : t.sid # activeSessions[q].sid
            ELSE /\ activeSessions'[q].sid \notin UsedSids
                 /\ DOMAIN activeSessions'[q].players = {s}
                 /\ \A token \in TokenArgs :
                        RequestSession(s, q, info, token) =>
                            activeSessions'[q].adminToken =
                                (IF info.role = "admin" THEN token ELSE NoToken)]_vars

\* a request_session that found the session in its grace window and cleared its timer
C8_Witness ==
    /\ lastOp.op = "request_session"
    /\ lastOp.timer # NoTimer
    /\ Registered(lastOp.sid)
    /\ ~TimerPending(lastOp.timer)

\* the timers that, when they fire, delete the entry of quiz id q: the callback
\* holds quizIdToClean only
EvictionPending(q) == \E t \in timers : t.quizId = q

\* C9: a registered session has a pending eviction timer exactly when it has no
\* players.
C9_TimerIffEmpty ==
    \A q \in DOMAIN activeSessions :
        EvictionPending(q) <=> (DOMAIN activeSessions[q].players = {})

\* C10: no connection is a player of two registered sessions.
C10_OneSessionPerConnection ==
    \A s \in Sockets :
        Cardinality({q \in DOMAIN activeSessions :
                        s \in DOMAIN activeSessions[q].players}) <= 1

\* C11: with timers that fire, no session stays registered forever once every
\* connection that joined it has disconnected: again and again the quiz id either
\* resolves to no session or to one that has a connected player.
C11_AbandonedSessionIsRemoved ==
    \A q \in QuizIds :
        []<>(~(/\ q \in DOMAIN activeSessions
               /\ \A s \in DOMAIN activeSessions[q].players : conn[s] = "closed"))

\* C12: no two registered sessions have the same room code.
C12_RoomCodesDistinct ==
    \A q1, q2 \in DOMAIN activeSessions :
        activeSessions[q1].roomCode = activeSessions[q2].roomCode => q1 = q2

\* two quiz ids got their sessions, one request_session after the other
C12_Witness ==
    /\ lastOp.op = "request_session"
    /\ Cardinality(DOMAIN activeSessions) = 2
    /\ \E q \in DOMAIN activeSessions :
          activeSessions[q].sid = lastOp.sid /\ DOMAIN activeSessions[q].players = {lastOp.sock}

\* C13: while clients only join and leave, a session that has a player stays
\* registered under its quiz id with the same room code; a session keeps its room
\* code as long as it is registered; and a request_session for a quiz id that has
\* a session answers with that session's room code, adds the caller to its players
\* and registers no other session.
C13_RoomCodeStable ==
    [][/\ \A q \in DOMAIN activeSessions :
             /\ DOMAIN activeSessions[q].players # {} =>
                    /\ q \in DOMAIN activeSessions'
                    /\ activeSessions'[q].sid = activeSessions[q].sid
             /\ (q \in DOMAIN activeSessions' /\ activeSessions'[q].sid = activeSessions[q].sid)
                    => activeSessions'[q].roomCode = activeSessions[q].roomCode
       /\ (lastOp'.op = "request_session" /\ emitted'[1].data.quizId \in DOMAIN activeSessions) =>
             LET q == emitted'[1].data.quizId
             IN  /\ emitted'[1].data.roomCode = activeSessions[q].roomCode
                 /\ DOMAIN activeSessions'[q].players =
                        DOMAIN activeSessions[q].players \cup {lastOp'.sock}
                 /\ \A p \in DOMAIN activeSessions[q].players \ {lastOp'.sock} :
                        activeSessions'[q].players[p] = activeSessions[q].players[p]
                 /\ DOMAIN activeSessions' = DOMAIN activeSessions
                 /\ \A o \in DOMAIN activeSessions \ {q} :
                        activeSessions'[o] = activeSessions[o]]_vars

\* a second connection joined a session that had a player and got its room code
C13_Witness ==
    /\ lastOp.op = "request_session"
    /\ \E q \in DOMAIN activeSessions :
          /\ activeSessions[q].sid = lastOp.sid
          /\ Cardinality(DOMAIN activeSessions[q].players) = 2
          /\ emitted[1].data.roomCode = activeSessions[q].roomCode

\* C14: a session gets a bound adminToken only when it is created, by a creator
\* whose role is admin; a registered session's token never changes except to
\* absent, and only in a disconnect; and after the disconnect of a player whose
\* role is admin, no session that had this player keeps a bound token.
C14_TokenBoundAtCreationOnly ==
    [][\A q \in DOMAIN activeSessions' :
          IF q \in DOMAIN activeSessions /\ activeSessions[q].sid = activeSessions'[q].sid
          THEN /\ activeSessions'[q].adminToken \in {activeSessions[q].adminToken, NoToken}
               /\ activeSessions'[q].adminToken # activeSessions[q].adminToken
                      => lastOp'.op = "disconnect"
               /\ (/\ lastOp'.op = "disconnect"
                   /\ lastOp'.sock \in DOMAIN activeSessions[q].players
                   /\ activeSessions[q].players[lastOp'.sock].role = "admin")
                      => activeSessions'[q].adminToken = NoToken
          ELSE /\ lastOp'.op = "request_session"
               /\ activeSessions'[q].adminToken # NoToken
                      => activeSessions'[q].players[lastOp'.sock].role = "admin"]_vars

\* the quiz ids whose session has room code c and socket s as a player
PlaysIn(s, c) ==
    {q \in DOMAIN activeSessions :
        activeSessions[q].roomCode = c /\ s \in DOMAIN activeSessions[q].players}

\* the connected players of the session of quiz id q
Connected(q) == {p \in DOMAIN activeSessions[q].players : conn[p] = "open"}

\* C15: update_score from a player of the session with that room code sets that
\* player's score to the given value, changes no other field, player or session,
\* and emits one leaderboard_update with the new roster to the room; from anyone
\* else it changes nothing and emits nothing.
C15_UpdateScoreOverwrites ==
    [][\A c \in Codes, score \in Scores :
          (lastOp'.op = "update_score" /\ UpdateScore(lastOp'.sock, c, score)) =>
             LET s == lastOp'.sock
             IN  /\ timers' = timers /\ rooms' = rooms /\ keyOrder' = keyOrder
                 /\ DOMAIN activeSessions' = DOMAIN activeSessions
                 /\ IF PlaysIn(s, c) = {}
                    THEN activeSessions' = activeSessions /\ emitted' = << >>
                    ELSE \E q \in PlaysIn(s, c) :
                           /\ activeSessions'[q].players =
                                  [activeSessions[q].players EXCEPT ![s].score = score]
                           /\ activeSessions' =
                                  [activeSessions EXCEPT ![q].players = activeSessions'[q].players]
                           /\ Len(emitted') = 1
                           /\ emitted'[1].ev = "leaderboard_update"
                           /\ emitted'[1].data.roster = Values(activeSessions'[q].players)
                           /\ Connected(q) \subseteq emitted'[1].to
                           /\ emitted'[1].to = rooms[c]]_vars

\* a player that had 5 points sent 0 while the other player keeps 5
C15_Witness ==
    /\ lastOp.op = "update_score"
    /\ \E q \in DOMAIN activeSessions :
          /\ activeSessions[q].sid = lastOp.sid
          /\ \E p \in DOMAIN activeSessions[q].players :
                /\ p # lastOp.sock
                /\ activeSessions[q].players[p].score = 5
                /\ activeSessions[q].players[lastOp.sock].score = 0
                /\ activeSessions[q].players[lastOp.sock].x = 1

\* C16: player_movement from a player of the session with that room code changes
\* only the x and y of that player and emits one player_moved to the members of
\* the room except the sender; from anyone else, or for a room code of no
\* session, it changes nothing and emits nothing.
C16_MovementOwnPositionOnly ==
    [][\A c \in Codes, p \in Positions :
          (lastOp'.op = "player_movement" /\ PlayerMovement(lastOp'.sock, c, p[1], p[2])) =>
             LET s == lastOp'.sock
             IN  /\ timers' = timers /\ rooms' = rooms /\ keyOrder' = keyOrder
                 /\ DOMAIN activeSessions' = DOMAIN activeSessions
                 /\ IF PlaysIn(s, c) = {}
                    THEN activeSessions' = activeSessions /\ emitted' = << >>
                    ELSE \E q \in PlaysIn(s, c) :
                           /\ activeSessions'[q].players =
                                  [activeSessions[q].players EXCEPT ![s].x = p[1], ![s].y = p[2]]
                           /\ activeSessions' =
                                  [activeSessions EXCEPT ![q].players = activeSessions'[q].players]
                           /\ Len(emitted') = 1
                           /\ emitted'[1].ev = "player_moved"
                           /\ emitted'[1].data = [playerId |-> s, x |-> p[1], y |-> p[2]]
                           /\ Connected(q) \ {s} \subseteq emitted'[1].to
                           /\ emitted'[1].to = rooms[c] \ {s}]_vars

\* a player moved to <<1, 2>> while the other player of the session stays at <<0, 0>>
C16_Witness ==
    /\ lastOp.op = "player_movement"
    /\ \E q \in DOMAIN activeSessions :
          /\ activeSessions[q].sid = lastOp.sid
          /\ activeSessions[q].players[lastOp.sock].x = 1
          /\ activeSessions[q].players[lastOp.sock].y = 2
          /\ \E o \in DOMAIN activeSessions[q].players :
                o # lastOp.sock /\ activeSessions[q].players[o].x = 0

\* C17: the disconnect of a connection removes it, and nobody else, from the
\* players of every session that has it, emits player_disconnected with its id to
\* the room, and arms a timer for such a session exactly when no player is left
\* in it; the sessions it was not a player of are left as they were.
C17_DisconnectRemovesAndArms ==
    [][lastOp'.op = "disconnect" =>
          LET s == lastOp'.sock
          IN  /\ DOMAIN activeSessions' = DOMAIN activeSessions
              /\ \A q \in DOMAIN activeSessions :
                    IF s \in DOMAIN activeSessions[q].players
                    THEN /\ activeSessions'[q].players =
                               Delete(activeSessions[q].players, s)
                         /\ Len(emitted') >= 1
                         /\ emitted'[1] = Event("player_disconnected",
                                                rooms'[activeSessions[q].roomCode],
                                                [playerId |-> s])
                         /\ IF DOMAIN activeSessions'[q].players = {}
                            THEN /\ activeSessions'[q].cleanupTimeout # NoTimer
                                 /\ \E t \in timers' \ timers :
                                       /\ t.id = activeSessions'[q].cleanupTimeout
                                       /\ t.quizId = q
                            ELSE /\ activeSessions'[q].cleanupTimeout = NoTimer
                                 /\ timers' = timers
                    ELSE activeSessions'[q] = activeSessions[q]]_vars

\* C18: request_session emits, in this order: session_ready to the caller, with the
\* session's room code, its players (the caller among them, with score 0) and
\* the caller's socket id; one new_player about the caller, which reaches every
\* other connected player and not the caller; one leaderboard_update with the
\* whole roster to the room, which holds the caller and every connected player.
C18_RequestSessionEvents ==
    lastOp.op = "request_session" =>
        LET s       == lastOp.sock
            session == SessionOf(lastOp.sid)
        IN  /\ Registered(lastOp.sid)
            /\ Len(emitted) = 3
            /\ emitted[1].ev = "session_ready" /\ emitted[1].to = {s}
            /\ emitted[1].data = [quizId |-> session.quizId, roomCode |-> session.roomCode,
                                  players |-> session.players, ownSocketId |-> s]
            /\ s \in DOMAIN session.players /\ session.players[s].score = 0
            /\ emitted[2].ev = "new_player"
            /\ emitted[2].data = [playerId |-> s, playerInfo |-> session.players[s]]
            /\ s \notin emitted[2].to
            /\ Connected(session.quizId) \ {s} \subseteq emitted[2].to
            /\ emitted[3].ev = "leaderboard_update"
            /\ emitted[3].data = [roster |-> Values(session.players)]
            /\ emitted[3].to = rooms[session.roomCode]
            /\ Connected(session.quizId) \subseteq emitted[3].to

\* a second connection joined: the first one is told, both get the roster
C18_Witness ==
    /\ lastOp.op = "request_session"
    /\ Len(emitted) = 3
    /\ emitted[2].to # {}
    /\ Cardinality(emitted[3].to) = 2
    /\ Cardinality(DOMAIN emitted[1].data.players) = 2

\* C19: the continuation of a finalization whose sink call succeeded removes no
\* session other than the one it authorized: when the quiz id resolves to another
\* session by then, that session stays registered and unchanged and its connected
\* players get no quiz_ended; the sessions of other quiz ids are left alone.
C19_DestroyOnlyAuthorizedSession ==
    [][\A call \in DOMAIN inflight :
          AdminEndOk(call) =>
             /\ \A q \in DOMAIN activeSessions \ {call.quizId} :
                    q \in DOMAIN activeSessions' /\ activeSessions'[q] = activeSessions[q]
             /\ (/\ call.quizId \in DOMAIN activeSessions
                 /\ activeSessions[call.quizId].sid # call.sid) =>
                    /\ call.quizId \in DOMAIN activeSessions'
                    /\ activeSessions'[call.quizId] = activeSessions[call.quizId]
                    /\ Connected(call.quizId) \cap emitted'[1].to = {}]_vars

\* C21: a connected socket is a member of the room of code c only while it is a
\* player of the registered session whose room code is c, so that what is emitted
\* to the room reaches the players of that session only.
C21_RoomMembersArePlayers ==
    \A c \in Codes : \A s \in rooms[c] :
        \E q \in DOMAIN activeSessions :
            /\ activeSessions[q].roomCode = c
            /\ s \in DOMAIN activeSessions[q].players

\* C22: the disconnect of a connection other than the one that created the session
\* and bound its adminToken leaves the token bound, as long as the creator is
\* connected and a player of the session.
C22_OnlyCreatorLeaveClearsToken ==
    [][lastOp'.op = "disconnect" =>
          \A q \in DOMAIN activeSessions :
              (/\ activeSessions[q].adminToken # NoToken
               /\ activeSessions[q].sid \in DOMAIN boundBy
               /\ boundBy[activeSessions[q].sid] # lastOp'.sock
               /\ boundBy[activeSessions[q].sid] \in DOMAIN activeSessions[q].players
               /\ conn[boundBy[activeSessions[q].sid]] = "open")
                  => /\ q \in DOMAIN activeSessions'
                     /\ activeSessions'[q].adminToken = activeSessions[q].adminToken]_vars


\* the two-index server: the Session objects one index or the other resolves
ByQuizId == {activeSessionsByQuizId[q] : q \in DOMAIN activeSessionsByQuizId}
ByRoomCode == {activeSessionsByRoomCode[c] : c \in DOMAIN activeSessionsByRoomCode}

\* C5: the cleanup timer never removes a session that has a player.
C5_CleanupRemovesOnlyEmpty ==
    [][lastOp'.op = "cleanup" =>
          \A sid \in ByQuizId \cup ByRoomCode :
              (sid \notin ByQuizId' \/ sid \notin ByRoomCode') =>
                  DOMAIN objects[sid].players = {}]_vars

\* C6: both indexes hold the same Session objects, each under its own quizId and
\* its own roomCode.
C6_IndexesAgree ==
    /\ ByQuizId = ByRoomCode
    /\ \A q \in DOMAIN activeSessionsByQuizId :
          objects[activeSessionsByQuizId[q]].quizId = q
    /\ \A c \in DOMAIN activeSessionsByRoomCode :
          objects[activeSessionsByRoomCode[c]].roomCode = c

\* C20: no Session object has two pending cleanup timers.
C20_AtMostOneTimerPerSession ==
    \A t1, t2 \in timers2 : t1.sid = t2.sid => t1 = t2

\* C7: no session stays registered with no player forever: with timers that fire,
\* every session is again and again either unregistered or holding a player.
C7_EmptySessionIsRemoved ==
    \A q \in QuizIds :
        []<>(~(/\ q \in DOMAIN activeSessionsByQuizId
               /\ DOMAIN objects[activeSessionsByQuizId[q]].players = {}))

====
